---------------------------- MODULE Spec2Model ----------------------------
(***************************************************************************)
(* Model of the two field-stripping scripts clean_json.py ("basic") and    *)
(* clean_json_advanced.py ("advanced").                                    *)
(*                                                                         *)
(* Text is a sequence of characters.  A character is a one-element token:  *)
(* the punctuation of JSON, the blank, a few letters and digits, and the   *)
(* three characters the code searches for by name (QUOTE, BSLASH, NL).     *)
(* The fourteen letters of the key name are kept together as the single    *)
(* token KEYNAME; no other token of the alphabet shares a letter with an   *)
(* escape letter of JSON (b f n r t u) or with a JSON literal.             *)
(***************************************************************************)
EXTENDS Naturals, Sequences, FiniteSets

QUOTE   == "QUOTE"
BSLASH  == "BSLASH"
NL      == "NL"
KEYNAME == "expert_summary"

Digits      == {"1", "2", "3", "4"}
Whitespace  == {" ", NL}

\* Bound of the input family: the number of records of a laid-out file.
MaxRecs == 2

---------------------------------------------------------------------------
(* Python string primitives, on character sequences.                       *)

Min(S) == CHOOSE x \in S : \A y \in S : x <= y

\* s[i:] with i a 1-based index
From(s, i) == SubSeq(s, i, Len(s))

\* pat occurs in s at 1-based index i
OccursAt(s, pat, i) ==
    /\ i >= 1
    /\ i + Len(pat) - 1 <= Len(s)
    /\ \A k \in 1..Len(pat) : s[i + k - 1] = pat[k]

\* str.find(pat, start): the lowest 1-based index >= start, or 0 for -1
Find(s, pat, start) ==
    LET hits == {i \in start..Len(s) : OccursAt(s, pat, i)}
    IN IF hits = {} THEN 0 ELSE Min(hits)

\* pat in s
Contains(s, pat) == Find(s, pat, 1) # 0

\* text.split('\n')
RECURSIVE Split(_)
Split(text) ==
    LET p == Find(text, <<NL>>, 1)
    IN IF p = 0 THEN <<text>>
       ELSE <<SubSeq(text, 1, p - 1)>> \o Split(From(text, p + 1))

\* '\n'.join(lines)
RECURSIVE Join(_)
Join(lines) ==
    IF Len(lines) = 0 THEN <<>>
    ELSE IF Len(lines) = 1 THEN lines[1]
    ELSE lines[1] \o <<NL>> \o Join(Tail(lines))

---------------------------------------------------------------------------
(* Stage 1: the line filter.                                               *)

\* the search pattern '"expert_summary"'
KeyToken == <<QUOTE, KEYNAME, QUOTE>>

\* the test that starts a target field: '"expert_summary"' in line and ':' in line
StartsField(line) == Contains(line, KeyToken) /\ Contains(line, <<":">>)

\* A scanner that takes every quote character as a quote, escaped or not.
RECURSIVE EveryQuote(_, _, _)
EveryQuote(s, i, escaped) ==
    IF i > Len(s) THEN {}
    ELSE IF s[i] = QUOTE THEN {i} \cup EveryQuote(s, i + 1, FALSE)
    ELSE EveryQuote(s, i + 1, FALSE)

\* The scanning loop of both scripts: the positions at which it sees a quote,
\* from position i on, "escaped" being the loop's flag.
RECURSIVE ScanQuotes(_, _, _)
ScanQuotes(s, i, escaped) ==
    IF i > Len(s) THEN {}
    ELSE IF escaped THEN ScanQuotes(s, i + 1, FALSE)
    ELSE IF s[i] = BSLASH THEN ScanQuotes(s, i + 1, TRUE)
    ELSE IF s[i] = QUOTE THEN {i} \cup ScanQuotes(s, i + 1, FALSE)
    ELSE ScanQuotes(s, i + 1, FALSE)

\* clean_json.py: the part of the line the quote count runs over
BasicLinePart(line, expert_summary_start) ==
    IF expert_summary_start
    THEN LET colon_pos == Find(line, <<":">>, 1)
         IN IF colon_pos # 0
            THEN LET quote_pos == Find(line, <<QUOTE>>, colon_pos)
                 IN IF quote_pos # 0 THEN From(line, quote_pos + 1) ELSE line
            ELSE line
    ELSE line

\* clean_json.py: one iteration of the loop over the lines
BasicLine(st, line) ==
    IF StartsField(line)
    THEN [st EXCEPT !.in_expert_summary = TRUE, !.expert_summary_start = TRUE]
    ELSE IF st.in_expert_summary
    THEN LET line_part   == BasicLinePart(line, st.expert_summary_start)
             quote_count == Cardinality(ScanQuotes(line_part, 1, FALSE))
         IN [st EXCEPT !.in_expert_summary = ~(quote_count % 2 = 1),
                       !.expert_summary_start = FALSE]
    ELSE [st EXCEPT !.result = Append(@, line)]

\* clean_json_advanced.py: the value on the key line, after its opening
\* quote; <<FALSE, <<>>>> when the line has no colon after the key or no
\* quote after that colon
AdvContentPart(line) ==
    LET colon_pos    == Find(line, KeyToken, 1)
        colon_actual == Find(line, <<":">>, colon_pos)
    IN IF colon_actual = 0 THEN <<FALSE, <<>>>>
       ELSE LET after_colon == From(line, colon_actual + 1)
                first_quote == Find(after_colon, <<QUOTE>>, 1)
            IN IF first_quote = 0 THEN <<FALSE, <<>>>>
               ELSE <<TRUE, From(after_colon, first_quote + 1)>>

\* clean_json_advanced.py: one iteration of the loop over the lines
AdvLine(st, line) ==
    IF ~st.in_expert_summary
    THEN IF StartsField(line)
         THEN LET cp == AdvContentPart(line)
                  quotes_found ==
                      IF cp[1] /\ ScanQuotes(cp[2], 1, FALSE) # {} THEN 1 ELSE 0
              IN [st EXCEPT !.in_expert_summary = ~(quotes_found = 1)]
         ELSE [st EXCEPT !.result = Append(@, line)]
    ELSE [st EXCEPT !.in_expert_summary = (ScanQuotes(line, 1, FALSE) = {})]

Stage1Init == [in_expert_summary |-> FALSE, expert_summary_start |-> FALSE,
               result |-> <<>>]

Stage1Line(script, st, line) ==
    IF script = "basic" THEN BasicLine(st, line) ELSE AdvLine(st, line)

\* the whole of remove_expert_summary_fields / remove_expert_summary_regex
RECURSIVE Stage1Fold(_, _, _, _)
Stage1Fold(script, st, lines, i) ==
    IF i > Len(lines) THEN st
    ELSE Stage1Fold(script, Stage1Line(script, st, lines[i]), lines, i + 1)

RemoveExpertSummary(script, text) ==
    Join(Stage1Fold(script, Stage1Init, Split(text), 1).result)

---------------------------------------------------------------------------
(* Stage 2: json.loads, the deletion loop, json.dumps(indent=2).           *)
(*                                                                         *)
(* A parsed value is a record [tag, val]: "num" with its digits, "str"     *)
(* with its decoded characters, "arr" with its items, "obj" with its       *)
(* members [k, v] in insertion order.  A parser result is [ok, v, i], i    *)
(* the index after the value.                                              *)

ParseFail == [ok |-> FALSE, v |-> [tag |-> "none", val |-> <<>>], i |-> 0]

RECURSIVE SkipWs(_, _)
SkipWs(t, i) ==
    IF i <= Len(t) /\ t[i] \in Whitespace THEN SkipWs(t, i + 1) ELSE i

\* The body of a string, from index i (after the opening quote).  Strict
\* mode: a literal line break inside a string is an error.  The escapes the
\* alphabet can spell are backslash-quote and backslash-backslash; a
\* backslash before any other character of the alphabet is an invalid escape.
RECURSIVE ParseString(_, _, _)
ParseString(t, i, acc) ==
    IF i > Len(t) THEN ParseFail
    ELSE IF t[i] = QUOTE THEN [ok |-> TRUE, v |-> [tag |-> "str", val |-> acc], i |-> i + 1]
    ELSE IF t[i] = NL THEN ParseFail
    ELSE IF t[i] = BSLASH
    THEN IF i + 1 <= Len(t) /\ t[i + 1] \in {QUOTE, BSLASH}
         THEN ParseString(t, i + 2, Append(acc, t[i + 1]))
         ELSE ParseFail
    ELSE ParseString(t, i + 1, Append(acc, t[i]))

RECURSIVE ParseNumber(_, _, _)
ParseNumber(t, i, acc) ==
    IF i <= Len(t) /\ t[i] \in Digits
    THEN ParseNumber(t, i + 1, Append(acc, t[i]))
    ELSE [ok |-> TRUE, v |-> [tag |-> "num", val |-> acc], i |-> i]

\* dict[key] = value: a key already present keeps its place
RECURSIVE SetMember(_, _, _)
SetMember(members, k, v) ==
    IF Len(members) = 0 THEN <<[k |-> k, v |-> v]>>
    ELSE IF members[1].k = k THEN <<[k |-> k, v |-> v]>> \o Tail(members)
    ELSE <<members[1]>> \o SetMember(Tail(members), k, v)

RECURSIVE ParseValue(_, _)
RECURSIVE ParseMembers(_, _, _)
RECURSIVE ParseElements(_, _, _)

\* i is at the opening quote of a member's key
ParseMembers(t, i, acc) ==
    IF ~(i <= Len(t) /\ t[i] = QUOTE) THEN ParseFail
    ELSE LET key == ParseString(t, i + 1, <<>>)
         IN IF ~key.ok THEN ParseFail
            ELSE LET c == SkipWs(t, key.i)
                 IN IF ~(c <= Len(t) /\ t[c] = ":") THEN ParseFail
                    ELSE LET val == ParseValue(t, SkipWs(t, c + 1))
                         IN IF ~val.ok THEN ParseFail
                            ELSE LET e    == SkipWs(t, val.i)
                                     next == SetMember(acc, key.v.val, val.v)
                                 IN IF e > Len(t) THEN ParseFail
                                    ELSE IF t[e] = "}"
                                    THEN [ok |-> TRUE, v |-> [tag |-> "obj", val |-> next],
                                          i |-> e + 1]
                                    ELSE IF t[e] = ","
                                    THEN ParseMembers(t, SkipWs(t, e + 1), next)
                                    ELSE ParseFail

\* i is at the start of an item
ParseElements(t, i, acc) ==
    LET val == ParseValue(t, i)
    IN IF ~val.ok THEN ParseFail
       ELSE LET e    == SkipWs(t, val.i)
                next == Append(acc, val.v)
            IN IF e > Len(t) THEN ParseFail
               ELSE IF t[e] = "]"
               THEN [ok |-> TRUE, v |-> [tag |-> "arr", val |-> next], i |-> e + 1]
               ELSE IF t[e] = ","
               THEN ParseElements(t, SkipWs(t, e + 1), next)
               ELSE ParseFail

ParseValue(t, i) ==
    IF i > Len(t) THEN ParseFail
    ELSE IF t[i] = QUOTE THEN ParseString(t, i + 1, <<>>)
    ELSE IF t[i] \in Digits THEN ParseNumber(t, i, <<>>)
    ELSE IF t[i] = "{"
    THEN LET j == SkipWs(t, i + 1)
         IN IF j <= Len(t) /\ t[j] = "}"
            THEN [ok |-> TRUE, v |-> [tag |-> "obj", val |-> <<>>], i |-> j + 1]
            ELSE ParseMembers(t, j, <<>>)
    ELSE IF t[i] = "["
    THEN LET j == SkipWs(t, i + 1)
         IN IF j <= Len(t) /\ t[j] = "]"
            THEN [ok |-> TRUE, v |-> [tag |-> "arr", val |-> <<>>], i |-> j + 1]
            ELSE ParseElements(t, j, <<>>)
    ELSE ParseFail

\* json.loads(text): one value, blanks around it, nothing after it
Loads(t) ==
    LET r == ParseValue(t, SkipWs(t, 1))
    IN IF r.ok /\ SkipWs(t, r.i) > Len(t) THEN r ELSE ParseFail

\* the loop "for item in data: if 'expert_summary' in item: del item[...]"
\* raises TypeError when data is no sequence of mappings and the membership
\* test runs on a number or succeeds on a string or a list
StrHasKey(chars) == Contains(chars, <<KEYNAME>>)

ItemRaises(item) ==
    \/ item.tag = "num"
    \/ item.tag = "str" /\ StrHasKey(item.val)
    \/ item.tag = "arr" /\ \E k \in 1..Len(item.val) :
           item.val[k].tag = "str" /\ item.val[k].val = <<KEYNAME>>

DeletionRaises(data) ==
    \/ data.tag = "num"
    \/ data.tag = "obj" /\ \E k \in 1..Len(data.val) : StrHasKey(data.val[k].k)
    \/ data.tag = "arr" /\ \E k \in 1..Len(data.val) : ItemRaises(data.val[k])

\* del item['expert_summary'] on one mapping
DelKey(members) == SelectSeq(members, LAMBDA m : m.k # <<KEYNAME>>)

\* data after the deletion loop (when it does not raise)
DeleteFromItems(data) ==
    IF data.tag # "arr" THEN data
    ELSE [data EXCEPT !.val =
             [k \in 1..Len(data.val) |->
                 IF data.val[k].tag = "obj"
                 THEN [data.val[k] EXCEPT !.val = DelKey(@)]
                 ELSE data.val[k]]]

\* json.dumps of a string, ensure_ascii=False
RECURSIVE EscapeChars(_)
EscapeChars(chars) ==
    IF Len(chars) = 0 THEN <<>>
    ELSE (IF chars[1] = QUOTE THEN <<BSLASH, QUOTE>>
          ELSE IF chars[1] = BSLASH THEN <<BSLASH, BSLASH>>
          ELSE <<chars[1]>>) \o EscapeChars(Tail(chars))

DumpString(chars) == <<QUOTE>> \o EscapeChars(chars) \o <<QUOTE>>

RECURSIVE Spaces(_)
Spaces(n) == IF n = 0 THEN <<>> ELSE <<" ">> \o Spaces(n - 1)

IndentWidth == 2

\* json.dumps(value, indent=2) at nesting level lvl
RECURSIVE DumpValue(_, _)
RECURSIVE DumpItems(_, _, _, _)
DumpItems(items, isObj, lvl, k) ==
    IF k > Len(items) THEN <<>>
    ELSE (IF k > 1 THEN <<",">> ELSE <<>>)
         \o <<NL>> \o Spaces(IndentWidth * (lvl + 1))
         \o (IF isObj
             THEN DumpString(items[k].k) \o <<":", " ">> \o DumpValue(items[k].v, lvl + 1)
             ELSE DumpValue(items[k], lvl + 1))
         \o DumpItems(items, isObj, lvl, k + 1)

DumpValue(v, lvl) ==
    IF v.tag = "num" THEN v.val
    ELSE IF v.tag = "str" THEN DumpString(v.val)
    ELSE LET open  == IF v.tag = "obj" THEN "{" ELSE "["
             close == IF v.tag = "obj" THEN "}" ELSE "]"
         IN IF Len(v.val) = 0 THEN <<open, close>>
            ELSE <<open>> \o DumpItems(v.val, v.tag = "obj", lvl, 1)
                 \o <<NL>> \o Spaces(IndentWidth * lvl) \o <<close>>

Dumps(v) == DumpValue(v, 0)

\* len(data): the items of a sequence, the members of a mapping, the
\* characters of a string
KeyNameLen == 14

RECURSIVE CharCount(_)
CharCount(chars) ==
    IF Len(chars) = 0 THEN 0
    ELSE (IF chars[1] = KEYNAME THEN KeyNameLen ELSE 1) + CharCount(Tail(chars))

Entries(data) == IF data.tag = "str" THEN CharCount(data.val) ELSE Len(data.val)

\* The try block of clean_json_file on the Stage-1 text: how it ends, the
\* text it formats and the number of entries it reports.
Stage2(cleaned_content) ==
    LET r == Loads(cleaned_content)
    IN IF ~r.ok
       THEN [outcome |-> "JSONDecodeError", formatted_json |-> <<>>, entries |-> 0]
       ELSE IF DeletionRaises(r.v)
       THEN [outcome |-> "TypeError", formatted_json |-> <<>>, entries |-> 0]
       ELSE [outcome |-> "ok", formatted_json |-> Dumps(DeleteFromItems(r.v)),
             entries |-> Entries(r.v)]

---------------------------------------------------------------------------
(* The input files.  A laid-out file is a JSON array of records, one field *)
(* per line, indented as json.dumps(indent=2) indents.  A record is        *)
(* described by [pre, kind, post]: an "i" field before and an "a" field    *)
(* after one field of the given kind:                                      *)
(*   none  no further field                                                *)
(*   S1    "expert_summary": "x\"y"         the value on the key line      *)
(*   S2C   "expert_summary": "x  |  y: z"   a line break in the value      *)
(*   S3Q   "expert_summary": "x  |  c: \"y\"  |  z: w\\"   two line breaks *)
(*   NEST  "g": {"expert_summary": "x"}     the key in a nested mapping    *)
(*   TV    "k": "expert_summary"            the key's name as a value      *)

Kinds == {"none", "S1", "S2C", "S3Q", "NEST", "TV"}
SummaryKinds == {"S1", "S2C", "S3Q"}

\* The field on one line comes at every position of a record (alone, first,
\* last, in the middle); the field ending on its second line comes last and
\* in the middle; every other kind comes in the middle.
RecordShapes ==
    {s \in [pre : BOOLEAN, kind : Kinds, post : BOOLEAN] :
        \/ s.kind = "S1"
        \/ s.pre /\ s.kind = "S2C"
        \/ s.pre /\ s.post}

DigitOf == <<"1", "2", "3", "4">>

Str(chars) == <<QUOTE>> \o chars \o <<QUOTE>>

KeyPart == Str(<<KEYNAME>>) \o <<":", " ">>

\* the lines of the field of a kind, without indentation and comma
KindLines(kind) ==
    CASE kind = "none" -> <<>>
      [] kind = "S1"   -> << KeyPart \o Str(<<"x", BSLASH, QUOTE, "y">>) >>
      [] kind = "S2C"  -> << KeyPart \o <<QUOTE, "x">>,
                             <<"y", ":", " ", "z", QUOTE>> >>
      [] kind = "S3Q"  -> << KeyPart \o <<QUOTE, "x">>,
                             <<"c", ":", " ", BSLASH, QUOTE, "y", BSLASH, QUOTE>>,
                             <<"z", ":", " ", "w", BSLASH, BSLASH, QUOTE>> >>
      [] kind = "NEST" -> << Str(<<"g">>) \o <<":", " ", "{">> \o KeyPart
                             \o Str(<<"x">>) \o <<"}">> >>
      [] kind = "TV"   -> << Str(<<"k">>) \o <<":", " ">> \o Str(<<KEYNAME>>) >>

PreLines(r)  == << Str(<<"i">>) \o <<":", " ", DigitOf[r]>> >>
PostLines(r) == << Str(<<"a">>) \o <<":", " ">> \o Str(<<"A">>) >>

\* the fields of record r, each a sequence of lines
FieldsOf(shape, r) ==
    (IF shape.pre THEN <<PreLines(r)>> ELSE <<>>)
    \o (IF shape.kind = "none" THEN <<>> ELSE <<KindLines(shape.kind)>>)
    \o (IF shape.post THEN <<PostLines(r)>> ELSE <<>>)

\* a field's lines, indented, with a comma after the last line when more follows
FieldText(flines, more) ==
    [k \in 1..Len(flines) |->
        Spaces(2 * IndentWidth) \o flines[k]
        \o (IF more /\ k = Len(flines) THEN <<",">> ELSE <<>>)]

RECURSIVE FieldsText(_, _)
FieldsText(fields, k) ==
    IF k > Len(fields) THEN <<>>
    ELSE FieldText(fields[k], k < Len(fields)) \o FieldsText(fields, k + 1)

RecordText(shape, r, more) ==
    << Spaces(IndentWidth) \o <<"{">> >>
    \o FieldsText(FieldsOf(shape, r), 1)
    \o << Spaces(IndentWidth) \o <<"}">> \o (IF more THEN <<",">> ELSE <<>>) >>

RECURSIVE RecordsText(_, _)
RecordsText(recs, r) ==
    IF r > Len(recs) THEN <<>>
    ELSE RecordText(recs[r], r, r < Len(recs)) \o RecordsText(recs, r + 1)

Layout(recs) == Join(<< <<"[">> >> \o RecordsText(recs, 1) \o << <<"]">> >>)

RecordSeqs == UNION {[1..n -> RecordShapes] : n \in 1..MaxRecs}

LaidOut == {[name |-> "laid out", recs |-> recs, text |-> Layout(recs)] :
               recs \in RecordSeqs}

\* Three further files.  "compact": two records on the physical lines of one
\* expert_summary value that holds a line break.  "split": a record whose
\* value, the key's name, is on the line after its key.  "numbers": an
\* array that holds a number.
CompactText ==
    <<"[", "{">> \o Str(<<"i">>) \o <<":", "1", ",">> \o Str(<<KEYNAME>>)
    \o <<":", QUOTE, "x", NL, "y", QUOTE, ",">> \o Str(<<"a">>) \o <<":">>
    \o Str(<<"A">>) \o <<"}", ",", "{">> \o Str(<<"i">>) \o <<":", "2", ",">>
    \o Str(<<"a">>) \o <<":">> \o Str(<<"B">>) \o <<"}", "]">>

SplitText ==
    <<"[", "{">> \o Str(<<"k">>) \o <<":", NL>> \o Str(<<KEYNAME>>) \o <<"}", "]">>

NumbersText == <<"[", "1", ",", "2", "]">>

Scenarios ==
    { [name |-> "compact", recs |-> <<>>, text |-> CompactText],
      [name |-> "split",   recs |-> <<>>, text |-> SplitText],
      [name |-> "numbers", recs |-> <<>>, text |-> NumbersText] }

Inputs == LaidOut \cup Scenarios

---------------------------------------------------------------------------
(* The run of a script's main block.                                       *)

VARIABLES
    script,           \* "basic" is clean_json.py, "advanced" clean_json_advanced.py
    orig,             \* the input the run started from: [name, recs, text]
    pc,               \* where the run is
    fs,               \* the files: input (= output) path, .backup, .intermediate
    writes,           \* the paths written so far, in order
    lines,            \* text.split('\n') inside the Stage-1 function
    idx,              \* the loop's position in lines
    st,               \* in_expert_summary, expert_summary_start, result
    cleaned_content,  \* the Stage-1 text
    ret               \* what clean_json_file returned

vars == <<script, orig, pc, fs, writes, lines, idx, st, cleaned_content, ret>>

Scripts == {"basic", "advanced"}

NoFile     == [exists |-> FALSE, data |-> <<>>]
File(text) == [exists |-> TRUE, data |-> text]

NotReturned == [returned |-> FALSE, success |-> FALSE, has_count |-> FALSE, count |-> 0]

\* clean_json.py returns a boolean, clean_json_advanced.py a pair
Returned(s, success, entries) ==
    [returned |-> TRUE, success |-> success, has_count |-> (s = "advanced"),
     count |-> IF s = "advanced" THEN entries ELSE 0]

Init ==
    /\ script \in Scripts
    /\ orig \in Inputs
    /\ pc = "backup"
    /\ fs = [input |-> File(orig.text), backup |-> NoFile, intermediate |-> NoFile]
    /\ writes = <<>>
    /\ lines = <<>>
    /\ idx = 1
    /\ st = Stage1Init
    /\ cleaned_content = <<>>
    /\ ret = NotReturned

\* what a failed copy can leave at the backup path: nothing, an empty file,
\* or a proper prefix of the content
PartialBackups(text) ==
    {NoFile} \cup {File(SubSeq(text, 1, n)) : n \in {0, Len(text) \div 2}}

\* the copy to input_file + ".backup" completes
BackupDone ==
    /\ pc = "backup"
    /\ fs' = [fs EXCEPT !.backup = File(fs.input.data)]
    /\ writes' = Append(writes, "backup")
    /\ pc' = "read"
    /\ UNCHANGED <<script, orig, lines, idx, st, cleaned_content, ret>>

\* A failed backup that the run carries on from.
BackupFailsGoesOn ==
    /\ pc = "backup"
    /\ \E b \in PartialBackups(fs.input.data) :
           /\ fs' = [fs EXCEPT !.backup = b]
           /\ writes' = IF b.exists THEN Append(writes, "backup") ELSE writes
    /\ pc' = "read"
    /\ UNCHANGED <<script, orig, lines, idx, st, cleaned_content, ret>>

\* the copy raises: clean_json.py dies of the exception, clean_json_advanced.py
\* prints it and calls exit(1)
BackupFails ==
    /\ pc = "backup"
    /\ \E b \in PartialBackups(fs.input.data) :
           /\ fs' = [fs EXCEPT !.backup = b]
           /\ writes' = IF b.exists THEN Append(writes, "backup") ELSE writes
    /\ pc' = "aborted"
    /\ UNCHANGED <<script, orig, lines, idx, st, cleaned_content, ret>>

\* clean_json_file is called: it reads the file and splits it into lines
ReadFile ==
    /\ pc = "read"
    /\ lines' = Split(fs.input.data)
    /\ idx' = 1
    /\ st' = Stage1Init
    /\ pc' = "stage1"
    /\ UNCHANGED <<script, orig, fs, writes, cleaned_content, ret>>

\* one iteration of the Stage-1 loop
FilterLine ==
    /\ pc = "stage1"
    /\ idx <= Len(lines)
    /\ st' = Stage1Line(script, st, lines[idx])
    /\ idx' = idx + 1
    /\ UNCHANGED <<script, orig, pc, fs, writes, lines, cleaned_content, ret>>

\* the loop is over: the function returns the joined result
FilterDone ==
    /\ pc = "stage1"
    /\ idx > Len(lines)
    /\ cleaned_content' = Join(st.result)
    /\ pc' = "stage2"
    /\ UNCHANGED <<script, orig, fs, writes, lines, idx, st, ret>>

\* the try block runs through: the formatted text is written to output_file
WriteFormatted ==
    /\ pc = "stage2"
    /\ LET r == Stage2(cleaned_content)
       IN /\ r.outcome = "ok"
          /\ fs' = [fs EXCEPT !.input = File(r.formatted_json)]
          /\ ret' = Returned(script, TRUE, r.entries)
    /\ writes' = Append(writes, "input")
    /\ pc' = "done"
    /\ UNCHANGED <<script, orig, lines, idx, st, cleaned_content>>

\* the path the except branch of a script writes the Stage-1 text to
FallbackPath(s) == IF s = "basic" THEN "input" ELSE "intermediate"

\* json.loads raises JSONDecodeError: the except branch
ParseFails ==
    /\ pc = "stage2"
    /\ Stage2(cleaned_content).outcome = "JSONDecodeError"
    /\ fs' = [fs EXCEPT ![FallbackPath(script)] = File(cleaned_content)]
    /\ writes' = Append(writes, FallbackPath(script))
    /\ ret' = Returned(script, FALSE, 0)
    /\ pc' = "done"
    /\ UNCHANGED <<script, orig, lines, idx, st, cleaned_content>>

\* the deletion loop raises TypeError, which nothing catches
DeletionFails ==
    /\ pc = "stage2"
    /\ Stage2(cleaned_content).outcome = "TypeError"
    /\ pc' = "crashed"
    /\ UNCHANGED <<script, orig, fs, writes, lines, idx, st, cleaned_content, ret>>

Next ==
    \/ BackupDone
    \/ BackupFails
    \/ ReadFile
    \/ FilterLine
    \/ FilterDone
    \/ WriteFormatted
    \/ ParseFails
    \/ DeletionFails

Spec == Init /\ [][Next]_vars

\* clean_json_file on a file system, as one step: the file system it leaves
\* and what it returns (crashed: the TypeError case)
CleanJsonFile(s, files) ==
    LET cleaned == RemoveExpertSummary(s, files.input.data)
        r       == Stage2(cleaned)
    IN IF r.outcome = "ok"
       THEN [crashed |-> FALSE, ret |-> Returned(s, TRUE, r.entries),
             fs |-> [files EXCEPT !.input = File(r.formatted_json)]]
       ELSE IF r.outcome = "JSONDecodeError"
       THEN [crashed |-> FALSE, ret |-> Returned(s, FALSE, 0),
             fs |-> [files EXCEPT ![FallbackPath(s)] = File(cleaned)]]
       ELSE [crashed |-> TRUE, ret |-> NotReturned, fs |-> files]

---------------------------------------------------------------------------
(* What the claims speak of.                                               *)

Range(f) == {f[k] : k \in DOMAIN f}

LaidOutOf(kinds) ==
    /\ orig.name = "laid out"
    /\ \A r \in 1..Len(orig.recs) : orig.recs[r].kind \in kinds

\* The collection a laid-out file stands for once the top-level target
\* field is gone from every record.
ExpectedRecord(shape, r) ==
    [tag |-> "obj", val |->
        (IF shape.pre
         THEN <<[k |-> <<"i">>, v |-> [tag |-> "num", val |-> <<DigitOf[r]>>]]>>
         ELSE <<>>)
        \o (IF shape.kind = "NEST"
            THEN <<[k |-> <<"g">>, v |-> [tag |-> "obj", val |->
                      <<[k |-> <<KEYNAME>>, v |-> [tag |-> "str", val |-> <<"x">>]]>>]]>>
            ELSE IF shape.kind = "TV"
            THEN <<[k |-> <<"k">>, v |-> [tag |-> "str", val |-> <<KEYNAME>>]]>>
            ELSE <<>>)
        \o (IF shape.post
            THEN <<[k |-> <<"a">>, v |-> [tag |-> "str", val |-> <<"A">>]]>>
            ELSE <<>>)]

ExpectedValue(recs) ==
    [tag |-> "arr", val |-> [r \in 1..Len(recs) |-> ExpectedRecord(recs[r], r)]]

\* The lines of a laid-out file that lie outside every target-field span:
\* all its lines but the key line and the continuation lines of each
\* record's expert_summary field, each as it stands in the file.
RECURSIVE KeptFields(_, _, _)
KeptFields(fields, span, k) ==
    IF k > Len(fields) THEN <<>>
    ELSE (IF k = span THEN <<>> ELSE FieldText(fields[k], k < Len(fields)))
         \o KeptFields(fields, span, k + 1)

SpanIndex(shape) ==
    IF shape.kind \in SummaryKinds THEN (IF shape.pre THEN 2 ELSE 1) ELSE 0

RECURSIVE KeptRecords(_, _)
KeptRecords(recs, r) ==
    IF r > Len(recs) THEN <<>>
    ELSE << Spaces(IndentWidth) \o <<"{">> >>
         \o KeptFields(FieldsOf(recs[r], r), SpanIndex(recs[r]), 1)
         \o << Spaces(IndentWidth) \o <<"}">>
               \o (IF r < Len(recs) THEN <<",">> ELSE <<>>) >>
         \o KeptRecords(recs, r + 1)

LinesOutsideSpans(recs) == << <<"[">> >> \o KeptRecords(recs, 1) \o << <<"]">> >>

\* a is b with some of its elements left out, the rest in order
RECURSIVE IsSubsequence(_, _)
IsSubsequence(a, b) ==
    IF Len(a) = 0 THEN TRUE
    ELSE IF Len(b) = 0 THEN FALSE
    ELSE IF a[1] = b[1] THEN IsSubsequence(Tail(a), Tail(b))
    ELSE IsSubsequence(a, Tail(b))

\* the quote at position p of s is not escaped: an even number of
\* backslashes stands immediately before it
BackslashRun(s, p) ==
    Cardinality({k \in 1..(p - 1) : \A j \in 1..k : s[p - j] = BSLASH})

UnescapedAt(s, p) == s[p] = QUOTE /\ BackslashRun(s, p) % 2 = 0

UnescapedQuotes(s) == {p \in 1..Len(s) : UnescapedAt(s, p)}

\* on a key line, the opening quote of the value: the first quote after the
\* colon that follows the key
OpeningQuote(line) ==
    Find(line, <<QUOTE>>, Find(line, <<":">>, Find(line, KeyToken, 1)) + 1)

---------------------------------------------------------------------------
(* The claims.                                                             *)

\* C1: for a laid-out array of flat records, any of which carries the
\* expert_summary field (anywhere in the record, on one line or several),
\* clean_json_file succeeds and the file written is the input collection
\* with that field deleted from those records and nothing else changed.
C1_StripsExactlyTheField ==
    (pc = "done" /\ LaidOutOf(SummaryKinds \cup {"none"}))
        => /\ ret.success
           /\ fs.input.data = Dumps(ExpectedValue(orig.recs))

\* C2: whenever the original file has been written, the backup held the
\* whole original content before that write; clean_json_file runs only on
\* a complete backup; and a run whose backup failed has ended, with
\* clean_json_file never called and the original file untouched.
C2_BackupBeforeWrite ==
    /\ "input" \in Range(writes)
           => /\ writes[1] = "backup"
              /\ fs.backup = File(orig.text)
    /\ pc \notin {"backup", "aborted"} => fs.backup = File(orig.text)
    /\ pc = "aborted"
           => /\ ~ENABLED Next
              /\ fs.input = File(orig.text)
              /\ "input" \notin Range(writes)
              /\ lines = <<>> /\ ~ret.returned

\* C2 happens: a run that rewrote the original file with the backup in place.
C2_Witness ==
    /\ pc = "done"
    /\ "input" \in Range(writes)
    /\ fs.input # File(orig.text)
    /\ fs.backup = File(orig.text)

\* the collection of the two-record scenario without the target field
CompactExpected ==
    [tag |-> "arr", val |->
        << [tag |-> "obj", val |->
              << [k |-> <<"i">>, v |-> [tag |-> "num", val |-> <<"1">>]],
                 [k |-> <<"a">>, v |-> [tag |-> "str", val |-> <<"A">>]] >>],
           [tag |-> "obj", val |->
              << [k |-> <<"i">>, v |-> [tag |-> "num", val |-> <<"2">>]],
                 [k |-> <<"a">>, v |-> [tag |-> "str", val |-> <<"B">>]] >>] >>]

\* C3: on the two-record input whose first record has an expert_summary
\* value with a line break, all on the same physical lines, the stripper
\* reports success and writes the two records without the field, the token
\* "expert_summary" occurring nowhere in the output.
C3_CompactScenario ==
    (pc = "done" /\ orig.name = "compact")
        => /\ ret.success
           /\ fs.input.data = Dumps(CompactExpected)
           /\ ~Contains(fs.input.data, KeyToken)

\* C4: when the Stage-1 text fails to parse, clean_json_file of either
\* script returns normally with success = false, has written the Stage-1
\* text to output path + ".intermediate", and reports 0 records.
C4_ParseFailure ==
    (pc \in {"done", "crashed"} /\ ~Loads(cleaned_content).ok)
        => /\ pc = "done"
           /\ ret.returned /\ ~ret.success
           /\ fs.intermediate = File(cleaned_content)
           /\ ret.has_count /\ ret.count = 0

\* C5: running clean_json_file a second time on the file the first run
\* left leaves that file as it is and returns the same success result.
C5_Idempotent ==
    pc = "done"
        => LET again == CleanJsonFile(script, fs)
           IN /\ ~again.crashed
              /\ again.fs.input = fs.input
              /\ again.ret.success = ret.success

\* C6: on a valid array of records none of which has the key
\* expert_summary (some having the string "expert_summary" as a value), the
\* stripper succeeds and the parsed output equals the parsed input.
C6_RoundTrip ==
    (pc = "done" /\ LaidOutOf({"none", "TV"}))
        => /\ ret.success
           /\ Loads(fs.input.data).ok
           /\ Dumps(Loads(fs.input.data).v) = Dumps(Loads(orig.text).v)

\* C7: when the expert_summary values hold line breaks (continuation lines
\* with colons and escaped quotes), Stage 1 drops the key line and the
\* continuation lines up to the closing quote, and emits every other line.
C7_MultiLineSpanDropped ==
    (pc = "stage2" /\ LaidOutOf({"none", "S2C", "S3Q"}))
        => Split(cleaned_content) = LinesOutsideSpans(orig.recs)

\* C8: in Stage 1 of each script, "inside" mode ends only on a line that
\* holds an unescaped quote (on the key line: after the value's opening
\* quote), never on a line whose quotes are all escaped; and the scan takes
\* as quotes exactly the quote characters with an even number of
\* backslashes before them.
C8_EscapedQuotesNeverClose ==
    [][ (pc = "stage1" /\ idx' = idx + 1)
          => LET line == lines[idx]
             IN /\ (st.in_expert_summary /\ ~st'.in_expert_summary)
                      => UnescapedQuotes(line) # {}
                /\ (~st.in_expert_summary /\ StartsField(line)
                        /\ ~st'.in_expert_summary)
                      => \E p \in UnescapedQuotes(line) : p > OpeningQuote(line)
                /\ (st.in_expert_summary /\ UnescapedQuotes(line) = {})
                      => st'.in_expert_summary
                /\ ScanQuotes(line, 1, FALSE) = UnescapedQuotes(line) ]_vars

\* C8 happens: the loop has just passed, inside the value, a line that holds
\* quotes, all of them escaped, and is still inside.
C8_Witness ==
    /\ pc = "stage1"
    /\ idx > 1
    /\ st.in_expert_summary
    /\ ~StartsField(lines[idx - 1])
    /\ Contains(lines[idx - 1], <<QUOTE>>)
    /\ UnescapedQuotes(lines[idx - 1]) = {}

\* C9: an expert_summary key inside a nested mapping is removed by neither
\* stage: Stage 1 emits every line, and the output is the input collection,
\* nested mapping included.
C9_NestedKeyKept ==
    LaidOutOf({"none", "NEST"})
        => /\ pc = "stage2" => cleaned_content = orig.text
           /\ pc = "done"
                  => /\ ret.success
                     /\ fs.input.data = Dumps(ExpectedValue(orig.recs))

\* C10: every input line outside a target-field span is in the Stage-1
\* output, unchanged and in its original order; in particular the line
\* after a key line whose value closes on the key line.
C10_LinesOutsideSpansPass ==
    (pc = "stage2" /\ LaidOutOf(SummaryKinds \cup {"none"}))
        => IsSubsequence(LinesOutsideSpans(orig.recs), Split(cleaned_content))

=============================================================================
